---- MODULE Spec2Model ----
(***************************************************************************)
(* Songmu/files: the concurrent directory walker of files.go.              *)
(*                                                                         *)
(* files.go holds two versions of the program.  The first (lines 1-256)    *)
(* extends the ignore context with append and walks with a pool of 16      *)
(* tokens and a synchronous fallback ("bounded").  The second (lines       *)
(* 258-509) extends the context by copying and starts one goroutine per    *)
(* directory entry ("spawnall").  cfg.variant selects the version.         *)
(*                                                                         *)
(* A walk call is a frame, keyed by the path it walks.  A goroutine is a   *)
(* task with a stack of frames: the synchronous fallback pushes the        *)
(* child's frame on the caller's stack.  Every access to memory shared     *)
(* between goroutines (the counter n, the backing arrays of the matcher    *)
(* slices, ferr, the channels) is a step of its own.                       *)
(***************************************************************************)
EXTENDS Integers, Sequences, FiniteSets, TLC

----------------------------------------------------------------------------
(* Bounds of the model *)

\* the token pool and the result channel are scaled down to these sizes, so
\* that a saturated pool and a full channel are reached on small trees
MaxTokens == 2
MaxQueue == 1

\* the longest matcher slice ignoreMatchers.Match is applied to on its own
MaxLen == 3

(* Program constants *)

SemCapacity == 16
QueueCapacity == 20

Min(a, b) == IF a < b THEN a ELSE b

SemCap == Min(SemCapacity, MaxTokens)
QCap == Min(QueueCapacity, MaxQueue)

----------------------------------------------------------------------------
(* File system trees.  A node is one directory entry as Lstat sees it. *)

\* every name used by a tree, in the byte order ioutil.ReadDir sorts by
NameOrder ==
    << ".git", ".gitignore", "a.txt", "c1", "c2", "config", "d", "f1", "f2",
       "locked", "sub", "up", "x.log", "x.tmp", "y.txt" >>

GitignoreFile == ".gitignore"

Node(nm, par, kd, tgt, rd, rl) ==
    [name |-> nm, parent |-> par, kind |-> kd, target |-> tgt,
     readable |-> rd, rules |-> rl]

Dir(nm, par) == Node(nm, par, "dir", 0, TRUE, {})
File(nm, par) == Node(nm, par, "file", 0, TRUE, {})
RuleFile(par, rl) == Node(GitignoreFile, par, "file", 0, TRUE, rl)

LogNames == {"x.log"}
TmpNames == {"x.tmp"}
SubNames == {"sub"}

\* a.txt, sub/y.txt and sub/up, a symlink to the root (a cycle)
TreePlain ==
    << Dir(".", 0), File("a.txt", 1), Dir("sub", 1), File("y.txt", 3),
       Node("up", 3, "symlink", 1, TRUE, {}) >>

\* a.txt, .git/config, sub/y.txt and sub/.git, a file
TreeGit ==
    << Dir(".", 0), File("a.txt", 1), Dir(".git", 1), File("config", 3),
       Dir("sub", 1), File("y.txt", 5), File(".git", 5) >>

\* sub/.gitignore (*.log), sub/x.log, sub/y.txt
TreeSub ==
    << Dir(".", 0), Dir("sub", 1), RuleFile(2, LogNames), File("x.log", 2),
       File("y.txt", 2) >>

\* rule files in ., d, d/c1 (*.tmp) and d/c2 (*.log); d/c1/x.log
TreeDeep ==
    << Dir(".", 0), RuleFile(1, {}), Dir("d", 1), RuleFile(3, {}),
       Dir("c1", 3), RuleFile(5, TmpNames), File("x.log", 5),
       Dir("c2", 3), RuleFile(8, LogNames) >>

\* two files
TreeFlat ==
    << Dir(".", 0), File("f1", 1), File("f2", 1) >>

\* an unreadable directory, which holds a file, beside a file
TreeLocked ==
    << Dir(".", 0), Node("locked", 1, "dir", 0, FALSE, {}), File("y.txt", 2),
       File("f1", 1) >>

\* d holds two unreadable directories, c1 and c2; beside d, a file
TreeTwoLocked ==
    << Dir(".", 0), Dir("d", 1), Node("c1", 2, "dir", 0, FALSE, {}),
       Node("c2", 2, "dir", 0, FALSE, {}), File("f1", 1) >>

\* .gitignore (sub), a.txt and sub/y.txt
TreePrune ==
    << Dir(".", 0), RuleFile(1, SubNames), File("a.txt", 1), Dir("sub", 1),
       File("y.txt", 4) >>

Trees ==
    << TreePlain, TreeGit, TreeSub, TreeDeep, TreeFlat, TreeLocked,
       TreeTwoLocked, TreePrune >>


----------------------------------------------------------------------------
(* Configuration: the flags main parses, and the tree the walk runs on. *)

Cfg(v, t, g, glob, st, mx) ==
    [variant |-> v, tree |-> t, care |-> g, global |-> glob, static |-> st,
     maxfiles |-> mx]

DefaultIgnore == {".git"}

Scenarios ==
    { Cfg("bounded", 1, FALSE, FALSE, {}, -1),
      Cfg("bounded", 2, FALSE, FALSE, DefaultIgnore, -1),
      Cfg("bounded", 3, TRUE, FALSE, DefaultIgnore, -1),
      Cfg("bounded", 4, TRUE, TRUE, DefaultIgnore \cup {GitignoreFile}, -1),
      Cfg("bounded", 5, FALSE, FALSE, DefaultIgnore, 1),
      Cfg("bounded", 5, FALSE, FALSE, DefaultIgnore, 2),
      Cfg("bounded", 6, FALSE, FALSE, DefaultIgnore, -1),
      Cfg("bounded", 7, FALSE, FALSE, DefaultIgnore, -1),
      Cfg("bounded", 8, TRUE, FALSE, DefaultIgnore, -1),
      Cfg("spawnall", 1, FALSE, FALSE, {}, -1),
      Cfg("spawnall", 3, TRUE, FALSE, DefaultIgnore, -1) }

VARIABLES
    cfg,        \* the configuration of this run
    frames,     \* path -> the walk call on that path
    tasks,      \* goroutine (named by the path it was started for) -> state
    sem,        \* tokens held in sem
    arrays,     \* backing arrays of the ignoreMatchers slices
    n,          \* the counter n of filesAsync
    q,          \* the result channel's buffer
    closed,     \* q is closed
    topwg,      \* filesAsync's WaitGroup
    topferr,    \* filesAsync's ferr
    closer,     \* position of the goroutine that closes q
    mainpc,     \* position of main's read loop
    out,        \* the lines main printed
    hist,       \* what has happened so far: bookkeeping the program never reads
    call        \* one application of ignoreMatchers.Match, outside any walk

vars ==
    << cfg, frames, tasks, sem, arrays, n, q, closed, topwg, topferr, closer,
       mainpc, out, hist, call >>

T == Trees[cfg.tree]
Nodes == 1..Len(T)
RootNode == 1
RootPath == << >>

\* fileInfo.IsDir and fileInfo.isSymlink of an entry read with Lstat
IsDir(x) == T[x].kind = "dir"
isSymlink(x) == T[x].kind = "symlink"

\* the node the operating system reaches when it opens entry x
RECURSIVE Resolve(_)
Resolve(x) == IF T[x].kind = "symlink" THEN Resolve(T[x].target) ELSE x

\* ioutil.ReadDir: the entries of a directory, sorted by name
Kids(d) ==
    LET present == SelectSeq(NameOrder,
                     LAMBDA nm : \E c \in Nodes : T[c].parent = d /\ T[c].name = nm)
    IN  [k \in 1..Len(present) |->
            CHOOSE c \in Nodes : T[c].parent = d /\ T[c].name = present[k]]

ReadDirFails(x) == LET r == Resolve(x) IN T[r].kind # "dir" \/ ~T[r].readable

\* errors
NilErr == [kind |-> "nil", at |-> << >>]
SkipDir == [kind |-> "SkipDir", at |-> << >>]
maxError == [kind |-> "maxError", at |-> << >>]
ReadErr(p) == [kind |-> "readdir", at |-> p]

\* maxcount is MaxInt64 unless -M is positive; no int64 exceeds MaxInt64
Overflows(v) == cfg.maxfiles > 0 /\ v > cfg.maxfiles

----------------------------------------------------------------------------
(* Matchers and slices of matchers *)

NilMatcher == [at |-> << "nil" >>, rules |-> {}]
GlobalAt == << "~" >>
GlobalMatcher == [at |-> GlobalAt, rules |-> {}]

\* gitignore.NewGitIgnore(path/.gitignore): the rule file of directory x
RuleFilesOf(x) ==
    { c \in Nodes : /\ T[c].parent = Resolve(x)
                    /\ T[c].name = GitignoreFile
                    /\ T[Resolve(c)].kind = "file" }
HasRuleFile(x) == RuleFilesOf(x) # {}
NewGitIgnore(p, x) ==
    [at |-> p, rules |-> T[Resolve(CHOOSE c \in RuleFilesOf(x) : TRUE)].rules]

\* IgnoreMatcher.Match of the pattern library: a pattern without a slash is
\* matched against the last element of the path
MatcherMatch(m, p, isdir) == p # << >> /\ p[Len(p)] \in m.rules

NilArr == << "nil" >>
GlobalArr == << "global" >>
ArrOf(p) == << "arr" >> \o p
NilSlice == [arr |-> NilArr, len |-> 0]

Cap(s) == arrays[s.arr].cap
Elems(s) == SubSeq(arrays[s.arr].elems, 1, s.len)

\* runtime growslice for one more 16-byte element
GrowCap(c) == IF c = 0 THEN 1 ELSE 2 * c

\* append(s, m): in place when the backing array has room
AppendArrays(s, m, id) ==
    IF s.len < Cap(s)
    THEN [arrays EXCEPT ![s.arr].elems =
            IF s.len < Len(@) THEN [@ EXCEPT ![s.len + 1] = m] ELSE Append(@, m)]
    ELSE (id :> [cap |-> GrowCap(Cap(s)), elems |-> Append(Elems(s), m)]) @@ arrays
AppendResult(s, m, id) ==
    IF s.len < Cap(s) THEN [arr |-> s.arr, len |-> s.len + 1]
    ELSE [arr |-> id, len |-> s.len + 1]

\* make(len+1), copy, set the last element
CopyArrays(s, m, id) ==
    (id :> [cap |-> s.len + 1, elems |-> Append(Elems(s), m)]) @@ arrays
CopyResult(s, m, id) == [arr |-> id, len |-> s.len + 1]

\* mutant: only the first matcher is consulted
MatchFromFirst(im, k, p, isdir) ==
    IF k > Len(im) THEN FALSE ELSE MatcherMatch(im[k], p, isdir)

\* ignoreMatchers.Match
RECURSIVE MatchFrom(_, _, _, _)
MatchFrom(im, k, p, isdir) ==
    IF k > Len(im) THEN FALSE
    ELSE IF im[k] = NilMatcher THEN FALSE
    ELSE IF MatcherMatch(im[k], p, isdir) THEN TRUE
    ELSE MatchFrom(im, k + 1, p, isdir)
Match(im, p, isdir) == MatchFrom(im, 1, p, isdir)

\* the arguments Match is applied to on its own: slices of matchers of
\* three rule files, and the same matchers in another order
LogMatcher == [at |-> << "a" >>, rules |-> LogNames]
TmpMatcher == [at |-> << "b" >>, rules |-> TmpNames]
EmptyMatcher == [at |-> << "c" >>, rules |-> {}]
MatcherPool == {LogMatcher, TmpMatcher, EmptyMatcher}
RuleSets == UNION {[1..k -> MatcherPool] : k \in 0..MaxLen}
ArgPaths == {<< "x.log" >>, << "sub", "x.tmp" >>, << "y.txt" >>}

Count(im, m) == Cardinality({k \in 1..Len(im) : im[k] = m})
SameMatchers(a, b) ==
    Len(a) = Len(b) /\ \A m \in MatcherPool : Count(a, m) = Count(b, m)

NoCall ==
    [pc |-> "none", im |-> << >>, alt |-> << >>, p |-> << >>, isdir |-> FALSE,
     res |-> FALSE, altres |-> FALSE]


----------------------------------------------------------------------------
(* Frames and tasks *)

Bounded == cfg.variant = "bounded"

\* walkFn extends the context only for a real directory (files.go 116, 373)
Extends(x) == cfg.care /\ IsDir(x) /\ ~isSymlink(x)

\* the call walk(path, info, parentIgnores, ...), about to call walkFn.  In
\* the second version newMatchers stays nil unless the entry is a real
\* directory and -g is set (files.go 372-382)
NewFrame(x, s) ==
    [node |-> x,
     ign  |-> IF ~Bounded /\ ~Extends(x) THEN NilSlice ELSE s,
     pc   |-> IF Extends(x) THEN "extend" ELSE "match",
     i    |-> 1,
     ferr |-> NilErr,
     wg   |-> 0,
     tmp  |-> 0,
     ret  |-> NilErr]

NewTask(p, par) == [stack |-> << p >>, pc |-> "run", parent |-> par]

Bump(b, p) == IF p \in DOMAIN b THEN [b EXCEPT ![p] = @ + 1] ELSE (p :> 1) @@ b
Drop(f, k) == [x \in DOMAIN f \ {k} |-> f[x]]

Top(t) == tasks[t].stack[Len(tasks[t].stack)]
Alive == mainpc # "exited"
\* task t runs the walk call at the top of its stack, which is at pc
At(t, pc) ==
    /\ Alive
    /\ t \in DOMAIN tasks
    /\ tasks[t].pc = "run"
    /\ frames[Top(t)].pc = pc

NilArrays == NilArr :> [cap |-> 0, elems |-> << >>]

\* ignMatchers = append(ignMatchers, matcher) for the global rule file
\* (files.go 85-95)
HasGlobal == cfg.care /\ cfg.global
InitArrays ==
    IF HasGlobal
    THEN (GlobalArr :> [cap |-> 1, elems |-> << GlobalMatcher >>]) @@ NilArrays
    ELSE NilArrays
ignMatchers == IF HasGlobal THEN [arr |-> GlobalArr, len |-> 1] ELSE NilSlice

\* the two goroutines of filesAsync: the root walk and the closer
InitFrames == RootPath :> NewFrame(RootNode, ignMatchers)
InitTasks == RootPath :> NewTask(RootPath, RootPath)

InitHist ==
    [pushed |-> << >>, classified |-> << >>, ctx |-> << >>, listed |-> {},
     closes |-> 0, reports |-> 0, late |-> FALSE, spawned |-> {},
     synced |-> {}, syncfree |-> FALSE, run |-> 1, first |-> {},
     firsterr |-> << >>, failed |-> {}, overflowed |-> FALSE,
     afterover |-> FALSE, pruned |-> {}, incs |-> << >>]

Init ==
    /\ cfg \in Scenarios
    /\ arrays = InitArrays
    /\ frames = InitFrames
    /\ tasks = InitTasks
    /\ sem = 0
    /\ n = 0
    /\ q = << >>
    /\ closed = FALSE
    /\ topwg = 1
    /\ topferr = NilErr
    /\ closer = "wait"
    /\ mainpc = "reading"
    /\ out = {}
    /\ hist = InitHist
    /\ call = NoCall

----------------------------------------------------------------------------
(* walkFn: the closure of filesAsync *)

\* matchers = append(matchers, matcher)           (first version, 116-120)
\* newMatchers = make; copy; newMatchers[len] = m  (second version, 373-380)
Extend(t) ==
    /\ At(t, "extend")
    /\ LET p == Top(t)
           f == frames[p]
           m == NewGitIgnore(p, f.node)
       IN  IF HasRuleFile(f.node)
           THEN /\ arrays' = IF Bounded THEN AppendArrays(f.ign, m, ArrOf(p))
                             ELSE CopyArrays(f.ign, m, ArrOf(p))
                /\ frames' = [frames EXCEPT
                     ![p].ign = IF Bounded THEN AppendResult(f.ign, m, ArrOf(p))
                                ELSE CopyResult(f.ign, m, ArrOf(p)),
                     ![p].pc = "match"]
           ELSE /\ arrays' = arrays
                /\ frames' = [frames EXCEPT ![p].pc = "match"]
    /\ UNCHANGED << call, cfg, tasks, sem, n, q, closed, topwg, topferr, closer,
                    mainpc, out, hist >>

\* ignorere.MatchString(fi.Name()) || *careGitignore && matchers.Match(...)
Excluded(x, p, ctx) ==
    \/ T[x].name \in cfg.static
    \/ cfg.care /\ Match(ctx, p, IsDir(x))

\* mutant: an excluded directory is not pruned
ExcludedErrNoSkip(x) == NilErr

\* what walkFn returns when the entry is excluded (files.go 122-128)
ExcludedErr(x) == IF IsDir(x) THEN SkipDir ELSE NilErr

\* mutant: walk lists whatever walkFn accepted, symlinks included
AfterWalkFnFollow(x, werr) ==
    IF werr # NilErr
    THEN IF IsDir(x) /\ werr = SkipDir THEN [ret |-> TRUE, err |-> NilErr]
         ELSE [ret |-> TRUE, err |-> werr]
    ELSE IF ~IsDir(Resolve(x)) THEN [ret |-> TRUE, err |-> NilErr]
    ELSE [ret |-> FALSE, err |-> NilErr]

\* mutant: SkipDir is handed up like any other error
AfterWalkFnKeepSkip(x, werr) ==
    IF werr # NilErr THEN [ret |-> TRUE, err |-> werr]
    ELSE IF isSymlink(x) \/ ~IsDir(x) THEN [ret |-> TRUE, err |-> NilErr]
    ELSE [ret |-> FALSE, err |-> NilErr]

\* walk after walkFn has returned werr (files.go 158-166): the error walk
\* returns at once, or "go on" (to ReadDir)
AfterWalkFn(x, werr) ==
    IF werr # NilErr
    THEN IF IsDir(x) /\ werr = SkipDir THEN [ret |-> TRUE, err |-> NilErr]
         ELSE [ret |-> TRUE, err |-> werr]
    ELSE IF isSymlink(x) \/ ~IsDir(x) THEN [ret |-> TRUE, err |-> NilErr]
    ELSE [ret |-> FALSE, err |-> NilErr]

\* the frame after walkFn returned werr
Returned(f, x, werr) ==
    LET a == AfterWalkFn(x, werr)
    IN  IF a.ret THEN [f EXCEPT !.pc = "ret", !.ret = a.err]
        ELSE [f EXCEPT !.pc = "readdir"]

\* the exclusion test (files.go 122)
Classify(t) ==
    /\ At(t, "match")
    /\ LET p == Top(t)
           f == frames[p]
           ctx == Elems(f.ign)
       IN  /\ frames' = [frames EXCEPT ![p] =
                IF Excluded(f.node, p, ctx) THEN Returned(f, f.node, ExcludedErr(f.node))
                ELSE IF ~IsDir(f.node) THEN [f EXCEPT !.pc = "incread"]
                ELSE Returned(f, f.node, NilErr)]
           /\ hist' = [hist EXCEPT
                !.classified = Bump(@, p),
                !.ctx = (p :> ctx) @@ @,
                !.pruned = IF Excluded(f.node, p, ctx) /\ IsDir(f.node)
                           THEN @ \cup {p} ELSE @]
    /\ UNCHANGED << call, cfg, tasks, sem, arrays, n, q, closed, topwg, topferr,
                    closer, mainpc, out >>

\* n++ is a load and a store (files.go 130)
IncRead(t) ==
    /\ At(t, "incread")
    /\ frames' = [frames EXCEPT ![Top(t)].tmp = n, ![Top(t)].pc = "incwrite"]
    /\ UNCHANGED << call, cfg, tasks, sem, arrays, n, q, closed, topwg, topferr,
                    closer, mainpc, out, hist >>

IncWrite(t) ==
    /\ At(t, "incwrite")
    /\ n' = frames[Top(t)].tmp + 1
    /\ frames' = [frames EXCEPT ![Top(t)].pc = "cmp"]
    /\ hist' = [hist EXCEPT !.incs = Bump(@, Top(t))]
    /\ UNCHANGED << call, cfg, tasks, sem, arrays, q, closed, topwg, topferr,
                    closer, mainpc, out >>

\* if n > maxcount (files.go 132): the compiled code compares the value it
\* has just stored or loads n again
Compare(t) ==
    /\ At(t, "cmp")
    /\ LET p == Top(t)
           f == frames[p]
       IN  \E v \in {f.tmp + 1, n} :
             /\ frames' = [frames EXCEPT ![p] =
                   IF Overflows(v) THEN Returned(f, f.node, maxError)
                   ELSE [f EXCEPT !.pc = "send"]]
             /\ hist' = [hist EXCEPT !.overflowed = @ \/ Overflows(v)]
    /\ UNCHANGED << call, cfg, tasks, sem, arrays, n, q, closed, topwg, topferr,
                    closer, mainpc, out >>

\* q <- filepath.ToSlash(path) (files.go 140); a send on a closed channel
\* panics
Send(t) ==
    /\ At(t, "send")
    /\ closed \/ Len(q) < QCap
    /\ LET p == Top(t)
           f == frames[p]
       IN  /\ q' = IF closed THEN q ELSE Append(q, p)
           /\ frames' = [frames EXCEPT ![p] = Returned(f, f.node, NilErr)]
           /\ hist' = [hist EXCEPT !.pushed = Bump(@, p),
                                   !.late = @ \/ closed,
                                   !.afterover = @ \/ hist.overflowed]
    /\ UNCHANGED << call, cfg, tasks, sem, arrays, n, closed, topwg, topferr,
                    closer, mainpc, out >>


----------------------------------------------------------------------------
(* walk *)

\* files, err := ioutil.ReadDir(path) (files.go 168-171)
ReadDir(t) ==
    /\ At(t, "readdir")
    /\ LET p == Top(t)
           f == frames[p]
       IN  IF ReadDirFails(f.node)
           THEN /\ frames' = [frames EXCEPT ![p].pc = "ret", ![p].ret = ReadErr(p)]
                /\ hist' = [hist EXCEPT !.failed = @ \cup {p}]
           ELSE /\ frames' = [frames EXCEPT ![p].pc = "loop", ![p].i = 1]
                /\ hist' = [hist EXCEPT !.listed = @ \cup {p}]
    /\ UNCHANGED << call, cfg, tasks, sem, arrays, n, q, closed, topwg, topferr,
                    closer, mainpc, out >>

Files(f) == Kids(Resolve(f.node))
ChildPath(p, c) == Append(p, T[c].name)

\* the select takes the send on sem when the pool has a free token; the
\* second version has no pool (files.go 176-177, 438)
TokenFree == IF Bounded THEN sem < SemCap ELSE TRUE

\* mutant: the loop does not move on after it has started a goroutine
SpawnNoAdvance(t) ==
    /\ At(t, "loop")
    /\ LET p == Top(t)
           f == frames[p]
       IN  /\ f.i <= Len(Files(f))
           /\ TokenFree
           /\ LET c == Files(f)[f.i]
                  cp == ChildPath(p, c)
              IN  /\ frames' = (cp :> NewFrame(c, f.ign)) @@
                                 [frames EXCEPT ![p].wg = @ + 1]
                  /\ tasks' = (cp :> NewTask(cp, p)) @@ tasks
                  /\ hist' = [hist EXCEPT !.spawned = @ \cup {cp}]
    /\ sem' = IF Bounded THEN sem + 1 ELSE sem
    /\ UNCHANGED << call, cfg, arrays, n, q, closed, topwg, topferr, closer, mainpc,
                    out >>

\* case sem <- struct{}{}: wg.Add(1); go func(...) (files.go 177-186, 438-445)
Spawn(t) ==
    /\ At(t, "loop")
    /\ LET p == Top(t)
           f == frames[p]
       IN  /\ f.i <= Len(Files(f))
           /\ TokenFree
           /\ LET c == Files(f)[f.i]
                  cp == ChildPath(p, c)
              IN  /\ frames' = (cp :> NewFrame(c, f.ign)) @@
                                 [frames EXCEPT ![p].wg = @ + 1, ![p].i = @ + 1]
                  /\ tasks' = (cp :> NewTask(cp, p)) @@ tasks
                  /\ hist' = [hist EXCEPT !.spawned = @ \cup {cp}]
    /\ sem' = IF Bounded THEN sem + 1 ELSE sem
    /\ UNCHANGED << call, cfg, arrays, n, q, closed, topwg, topferr, closer, mainpc,
                    out >>

\* mutant: the select has no default case, the loop waits for a token
CallSyncNever(t) ==
    /\ At(t, "loop")
    /\ FALSE
    /\ UNCHANGED vars

\* default: err := walk(...) on the current goroutine (files.go 187-188)
CallSync(t) ==
    /\ At(t, "loop")
    /\ LET p == Top(t)
           f == frames[p]
       IN  /\ f.i <= Len(Files(f))
           /\ ~TokenFree
           /\ LET c == Files(f)[f.i]
                  cp == ChildPath(p, c)
              IN  /\ frames' = (cp :> NewFrame(c, f.ign)) @@ frames
                  /\ tasks' = [tasks EXCEPT ![t].stack = Append(@, cp)]
                  /\ hist' = [hist EXCEPT !.synced = @ \cup {cp},
                                          !.syncfree = @ \/ sem < SemCap]
    /\ UNCHANGED << call, cfg, sem, arrays, n, q, closed, topwg, topferr, closer,
                    mainpc, out >>

\* mutant: walk returns without waiting for the goroutines it started
WaitNoJoin(t) ==
    /\ At(t, "loop")
    /\ LET p == Top(t)
           f == frames[p]
       IN  /\ f.i > Len(Files(f))
           /\ frames' = [frames EXCEPT ![p].pc = "ret", ![p].ret = f.ferr]
    /\ UNCHANGED << call, cfg, tasks, sem, arrays, n, q, closed, topwg, topferr,
                    closer, mainpc, out, hist >>

\* wg.Wait(); return ferr (files.go 194-195)
Wait(t) ==
    /\ At(t, "loop")
    /\ LET p == Top(t)
           f == frames[p]
       IN  /\ f.i > Len(Files(f))
           /\ f.wg = 0
           /\ frames' = [frames EXCEPT ![p].pc = "ret", ![p].ret = f.ferr]
    /\ UNCHANGED << call, cfg, tasks, sem, arrays, n, q, closed, topwg, topferr,
                    closer, mainpc, out, hist >>

\* mutant: ferr = err, whatever err is
SetErrAlways(old, err) == err

\* if err != nil { ferr = err } (files.go 183-185, 189-191)
SetErr(old, err) == IF err # NilErr THEN err ELSE old

\* bookkeeping: the first non-nil error a child handed to the walk call on g
NoteErr(h, g, e) ==
    IF e # NilErr /\ g \notin DOMAIN h.firsterr
    THEN [h EXCEPT !.firsterr = (g :> e) @@ @]
    ELSE h

\* a walk call returns: to the loop of the caller (189-191), to the goroutine
\* that wraps it (183-185), or to filesAsync (113)
Return(t) ==
    /\ At(t, "ret")
    /\ LET p == Top(t)
           e == frames[p].ret
           st == tasks[t].stack
           par == tasks[t].parent
           rest == Drop(frames, p)
       IN  IF Len(st) > 1
           THEN LET g == st[Len(st) - 1]
                IN  /\ frames' = [rest EXCEPT ![g].ferr = SetErr(@, e), ![g].i = @ + 1]
                    /\ tasks' = [tasks EXCEPT ![t].stack = SubSeq(st, 1, Len(st) - 1)]
                    /\ topferr' = topferr
                    /\ hist' = NoteErr(hist, g, e)
           ELSE IF t = RootPath
           THEN /\ frames' = rest
                /\ tasks' = [tasks EXCEPT ![t].stack = << >>, ![t].pc = "wgdone"]
                /\ topferr' = e
                /\ hist' = hist
           ELSE /\ frames' = [rest EXCEPT ![par].ferr = SetErr(@, e)]
                /\ tasks' = [tasks EXCEPT ![t].stack = << >>,
                                          ![t].pc = IF Bounded THEN "release" ELSE "wgdone"]
                /\ topferr' = topferr
                /\ hist' = NoteErr(hist, par, e)
    /\ UNCHANGED << call, cfg, sem, arrays, n, q, closed, topwg, closer, mainpc, out >>

\* mutant: the goroutine ends without giving its token back
ReleaseNothing(t) ==
    /\ Alive
    /\ t \in DOMAIN tasks
    /\ tasks[t].pc = "release"
    /\ tasks' = [tasks EXCEPT ![t].pc = "wgdone"]
    /\ UNCHANGED << call, cfg, frames, sem, arrays, n, q, closed, topwg, topferr,
                    closer, mainpc, out, hist >>

\* defer func() { <-sem }() (files.go 181)
Release(t) ==
    /\ Alive
    /\ t \in DOMAIN tasks
    /\ tasks[t].pc = "release"
    /\ sem' = sem - 1
    /\ tasks' = [tasks EXCEPT ![t].pc = "wgdone"]
    /\ UNCHANGED << call, cfg, frames, arrays, n, q, closed, topwg, topferr, closer,
                    mainpc, out, hist >>

\* defer wg.Done() (files.go 111, 180, 440)
WgDone(t) ==
    /\ Alive
    /\ t \in DOMAIN tasks
    /\ tasks[t].pc = "wgdone"
    /\ IF t = RootPath
       THEN /\ topwg' = topwg - 1
            /\ frames' = frames
       ELSE /\ topwg' = topwg
            /\ frames' = [frames EXCEPT ![tasks[t].parent].wg = @ - 1]
    /\ tasks' = Drop(tasks, t)
    /\ UNCHANGED << call, cfg, sem, arrays, n, q, closed, topferr, closer, mainpc,
                    out, hist >>

----------------------------------------------------------------------------
(* The closing goroutine of filesAsync, and main *)

\* mutant: q is closed without waiting for the root walk
CloseQNoWait ==
    /\ Alive
    /\ closer = "wait"
    /\ closed' = TRUE
    /\ closer' = "report"
    /\ hist' = [hist EXCEPT !.closes = @ + 1]
    /\ UNCHANGED << call, cfg, frames, tasks, sem, arrays, n, q, topwg, topferr,
                    mainpc, out >>

\* wg.Wait(); close(q) (files.go 147-148)
CloseQ ==
    /\ Alive
    /\ closer = "wait"
    /\ topwg = 0
    /\ closed' = TRUE
    /\ closer' = "report"
    /\ hist' = [hist EXCEPT !.closes = @ + 1]
    /\ UNCHANGED << call, cfg, frames, tasks, sem, arrays, n, q, topwg, topferr,
                    mainpc, out >>

\* if ferr != nil { fmt.Fprintln(os.Stderr, ferr) } (files.go 149-151)
Report ==
    /\ Alive
    /\ closer = "report"
    /\ closer' = "done"
    /\ hist' = [hist EXCEPT !.reports = IF topferr # NilErr THEN @ + 1 ELSE @]
    /\ UNCHANGED << call, cfg, frames, tasks, sem, arrays, n, q, closed, topwg,
                    topferr, mainpc, out >>

\* for s := range q { printLine(s) } (files.go 253-255)
Consume ==
    /\ mainpc = "reading"
    /\ q # << >>
    /\ out' = out \cup {Head(q)}
    /\ q' = Tail(q)
    /\ UNCHANGED << call, cfg, frames, tasks, sem, arrays, n, closed, topwg, topferr,
                    closer, mainpc, hist >>

\* the range loop ends on the closed, drained channel; main returns and the
\* process exits (files.go 255-256)
MainExit ==
    /\ mainpc = "reading"
    /\ q = << >>
    /\ closed
    /\ mainpc' = "exited"
    /\ UNCHANGED << call, cfg, frames, tasks, sem, arrays, n, q, closed, topwg,
                    topferr, closer, out, hist >>

TaskIds == DOMAIN tasks

Next ==
    \/ \E t \in TaskIds : Extend(t)
    \/ \E t \in TaskIds : Classify(t)
    \/ \E t \in TaskIds : IncRead(t)
    \/ \E t \in TaskIds : IncWrite(t)
    \/ \E t \in TaskIds : Compare(t)
    \/ \E t \in TaskIds : Send(t)
    \/ \E t \in TaskIds : ReadDir(t)
    \/ \E t \in TaskIds : Spawn(t)
    \/ \E t \in TaskIds : CallSync(t)
    \/ \E t \in TaskIds : Wait(t)
    \/ \E t \in TaskIds : Return(t)
    \/ \E t \in TaskIds : Release(t)
    \/ \E t \in TaskIds : WgDone(t)
    \/ CloseQ
    \/ Report
    \/ Consume
    \/ MainExit

Spec == Init /\ [][Next]_vars

\* the scheduler runs a goroutine that can take a step, and main keeps
\* reading q: as long as some step is possible, one is taken
FairSpec == Spec /\ WF_vars(Next)

\* the program is run a second time on the same tree with the same flags
Rerun ==
    /\ mainpc = "exited"
    /\ hist.run = 1
    /\ arrays' = InitArrays
    /\ frames' = InitFrames
    /\ tasks' = InitTasks
    /\ sem' = 0
    /\ n' = 0
    /\ q' = << >>
    /\ closed' = FALSE
    /\ topwg' = 1
    /\ topferr' = NilErr
    /\ closer' = "wait"
    /\ mainpc' = "reading"
    /\ out' = {}
    /\ hist' = [InitHist EXCEPT !.run = 2, !.first = out]
    /\ UNCHANGED << call, cfg >>

NextTwice == Next \/ Rerun

SpecTwice == Init /\ [][NextTwice]_vars

\* ignoreMatchers.Match applied on its own: to a slice, then to the same
\* matchers in another order
InitMatch ==
    /\ cfg = Cfg("bounded", 1, FALSE, FALSE, {}, -1)
    /\ arrays = InitArrays
    /\ frames = InitFrames
    /\ tasks = InitTasks
    /\ sem = 0
    /\ n = 0
    /\ q = << >>
    /\ closed = FALSE
    /\ topwg = 1
    /\ topferr = NilErr
    /\ closer = "wait"
    /\ mainpc = "reading"
    /\ out = {}
    /\ hist = InitHist
    /\ \E im \in RuleSets, p \in ArgPaths, d \in BOOLEAN :
          \E alt \in {b \in RuleSets : SameMatchers(im, b)} :
             call = [NoCall EXCEPT !.pc = "args", !.im = im, !.alt = alt,
                                   !.p = p, !.isdir = d]

MatchCall ==
    /\ call.pc = "args"
    /\ call' = [call EXCEPT !.res = Match(call.im, call.p, call.isdir),
                            !.pc = "once"]
    /\ UNCHANGED << cfg, frames, tasks, sem, arrays, n, q, closed, topwg,
                    topferr, closer, mainpc, out, hist >>

MatchAgain ==
    /\ call.pc = "once"
    /\ call' = [call EXCEPT !.altres = Match(call.alt, call.p, call.isdir),
                            !.pc = "done"]
    /\ UNCHANGED << cfg, frames, tasks, sem, arrays, n, q, closed, topwg,
                    topferr, closer, mainpc, out, hist >>

NextMatch == MatchCall \/ MatchAgain

SpecMatch == InitMatch /\ [][NextMatch]_vars

TypeOK ==
    /\ sem \in 0..SemCap
    /\ Len(q) <= QCap
    /\ n \in Nat


----------------------------------------------------------------------------
(* What the tree holds, read off the tree alone *)

IsPrefix(a, b) == Len(a) <= Len(b) /\ SubSeq(b, 1, Len(a)) = a
StrictPrefix(a, b) == Len(a) < Len(b) /\ IsPrefix(a, b)
Range(sq) == {sq[k] : k \in 1..Len(sq)}
Total(b) ==
    LET RECURSIVE Sum(_)
        Sum(S) == IF S = {} THEN 0
                  ELSE LET x == CHOOSE y \in S : TRUE IN b[x] + Sum(S \ {x})
    IN  Sum(DOMAIN b)

RECURSIVE NodePath(_)
NodePath(x) ==
    IF x = RootNode THEN << >> ELSE Append(NodePath(T[x].parent), T[x].name)

\* the directories above x, the root included
RECURSIVE Above(_)
Above(x) == IF x = RootNode THEN {} ELSE {T[x].parent} \cup Above(T[x].parent)

Entries == Nodes \ {RootNode}
PathsOf(S) == {NodePath(x) : x \in S}

\* x can be reached by listing real directories from the root
Reachable(x) == \A a \in Above(x) : T[a].kind = "dir" /\ T[a].readable

\* the rule files that apply to x: those of the directories above it, and
\* its own if it is a directory
RuleDirs(x) ==
    {a \in Above(x) \cup (IF IsDir(x) THEN {x} ELSE {}) : HasRuleFile(a)}
RuleMatched(x) ==
    \/ HasGlobal /\ MatcherMatch(GlobalMatcher, NodePath(x), IsDir(x))
    \/ \E a \in RuleDirs(x) :
          MatcherMatch(NewGitIgnore(NodePath(a), a), NodePath(x), IsDir(x))
StaticMatched(x) == T[x].name \in cfg.static
ExcludedByRules(x) == StaticMatched(x) \/ (cfg.care /\ RuleMatched(x))

\* no directory above x is excluded or unreadable
Visited(x) == Reachable(x) /\ \A a \in Above(x) : ~ExcludedByRules(a)
Emittable == {x \in Entries : ~IsDir(x) /\ Visited(x) /\ ~ExcludedByRules(x)}

Pushed == DOMAIN hist.pushed
Unbounded == cfg.maxfiles <= 0
AllReadable == \A x \in Nodes : T[x].readable
Settled == topwg = 0

----------------------------------------------------------------------------
(* C1 *)

NoIgnore == ~cfg.care /\ Unbounded /\ \A x \in Nodes : ~StaticMatched(x)

\* C1: with -g off, a static pattern that matches no name and no maximum,
\* the paths pushed on q by the time it is closed are exactly the entries
\* that are not directories and are reached from the root through real
\* directories that can be listed; a symlink to a directory is such an entry
\* and nothing below it is pushed.
C1_EmittedSet ==
    LET all == PathsOf({x \in Entries : ~IsDir(x) /\ Reachable(x)})
    IN  NoIgnore => /\ Pushed \subseteq all
                    /\ closed => Pushed = all

C1_Witness ==
    /\ NoIgnore
    /\ closed
    /\ \E x \in Entries : isSymlink(x) /\ IsDir(Resolve(x)) /\ NodePath(x) \in Pushed

----------------------------------------------------------------------------
(* C2 *)

Seen == Pushed \cup DOMAIN hist.classified \cup hist.listed \cup DOMAIN frames
Last(p) == p[Len(p)]

\* C2: an entry whose name matches the static pattern is never pushed on q
\* and never listed, and no path below such an entry is ever classified,
\* listed or pushed.
C2_StaticPrune ==
    /\ \A p \in Pushed \cup hist.listed : p # << >> => Last(p) \notin cfg.static
    /\ \A p \in Seen : \A k \in 1..(Len(p) - 1) : p[k] \notin cfg.static

C2_Witness ==
    /\ closed
    /\ \E x \in Entries :
         /\ IsDir(x) /\ StaticMatched(x) /\ NodePath(x) \in DOMAIN hist.classified
         /\ \E y \in Entries : T[y].parent = x /\ ~StaticMatched(y)
    /\ \E x \in Entries :
         ~IsDir(x) /\ StaticMatched(x) /\ NodePath(x) \in DOMAIN hist.classified
    /\ Pushed = { << "a.txt" >>, << "sub", "y.txt" >> }


----------------------------------------------------------------------------
(* C3 *)

\* matcher m belongs to the context of path p: the global matcher, or the
\* matcher of a rule file in a directory above p or in p itself
OwnMatcher(m, p) == m.at = GlobalAt \/ IsPrefix(m.at, p)

\* C3: with -g on, the context an entry is classified with, and the context
\* every running walk call holds, contain only the global matcher and the
\* matchers of rule files of the entry's own ancestor directories (and its
\* own): a matcher added for directory D is never seen by the walk of a
\* sibling of D, of a sibling's descendant or of an ancestor of D, and what
\* D inherited is not altered.
C3_ContextScoped ==
    cfg.care =>
        /\ \A p \in DOMAIN hist.ctx :
              \A m \in Range(hist.ctx[p]) : OwnMatcher(m, p)
        /\ \A p \in DOMAIN frames :
              \A m \in Range(Elems(frames[p].ign)) : OwnMatcher(m, p)

\* the same for the second version of walkFn, which copies on extension
C3_CopyScoped == ~Bounded => C3_ContextScoped


----------------------------------------------------------------------------
(* C4 *)

\* C4: with -g on and no maximum, once the walk is over an entry that is not
\* a directory and whose directories were walked has been pushed exactly
\* when its name does not match the static pattern and no rule file of a
\* directory above it matches its path; of sub/x.log and sub/y.txt under
\* sub/.gitignore (*.log) only sub/y.txt is pushed.
C4_ScopedEmit ==
    (cfg.care /\ Unbounded /\ closed) =>
        /\ Pushed = PathsOf(Emittable)
        /\ cfg.tree = 3 =>
             Pushed \cap { << "sub", "x.log" >>, << "sub", "y.txt" >> }
                = { << "sub", "y.txt" >> }

\* the same in the first version alone
C4_BoundedEmit == Bounded => C4_ScopedEmit

----------------------------------------------------------------------------
(* C5 and C6 *)

\* C5: with -M k, k >= 1, no more than k paths are ever pushed on q.
C5_AtMostMax == cfg.maxfiles >= 1 => Total(hist.pushed) <= cfg.maxfiles

\* C6: with -M k, k >= 1, on a tree with more than k files to emit and no
\* unreadable directory, the walk ends with maxError.
C6_OverflowReported ==
    (/\ cfg.maxfiles >= 1
     /\ Cardinality(Emittable) > cfg.maxfiles
     /\ AllReadable
     /\ Settled) => topferr = maxError


----------------------------------------------------------------------------
(* C7 *)

\* C7: a second run on the same tree with the same flags (no maximum) prints
\* the same set of paths as the first, whatever the scheduling of either.
C7_SameSet ==
    (Unbounded /\ hist.run = 2 /\ mainpc = "exited") => out = hist.first

\* the same without -g
C7_SameSetNoRules == ~cfg.care => C7_SameSet


----------------------------------------------------------------------------
(* C8 *)

\* C8: q is closed at most once, and only when the root walk and every
\* goroutine and call below it have returned; no path is sent on q after it
\* is closed; when the closing goroutine is through, q has been closed once.
C8_ClosedOnceAfterAll ==
    /\ hist.closes <= 1
    /\ closed <=> hist.closes = 1
    /\ closed => DOMAIN tasks = {} /\ DOMAIN frames = {} /\ topwg = 0
    /\ ~hist.late
    /\ closer \in {"report", "done"} => closed

C8_Witness ==
    /\ closed
    /\ topferr = maxError
    /\ Pushed # {}
    /\ Cardinality(hist.spawned) >= 2

----------------------------------------------------------------------------
(* C9 *)

\* the goroutines started by walk that have not yet given their token back
Holding == {t \in DOMAIN tasks \ {RootPath} : tasks[t].pc \in {"run", "release"}}
\* the goroutines started by walk whose walk call has not returned
Walking == {t \in DOMAIN tasks \ {RootPath} : tasks[t].pc = "run"}

PoolRespected ==
    /\ Cardinality(Walking) <= SemCap
    /\ SemCap <= SemCapacity
    /\ Cardinality(Holding) = sem
    /\ ~hist.syncfree
    /\ hist.spawned \cap hist.synced = {}

----------------------------------------------------------------------------
(* C10 *)

NodesAt(p) == {x \in Nodes : NodePath(x) = p}
KidPaths(p) == {NodePath(c) : c \in {c \in Nodes : T[c].parent \in NodesAt(p)}}

\* nothing at or below p is running or still to be started
Resolved(p) ==
    /\ \A r \in DOMAIN frames : ~StrictPrefix(p, r)
    /\ \A t \in DOMAIN tasks : ~StrictPrefix(p, t)
    /\ \A d \in hist.listed :
          IsPrefix(p, d) => KidPaths(d) \subseteq DOMAIN hist.classified

\* C10: at the moment a walk call returns, every goroutine it started has
\* ended and no walk of an entry below its path is running or still to be
\* started.
C10_JoinBeforeReturn ==
    \A p \in DOMAIN frames : frames[p].pc = "ret" => Resolved(p)

C10_Witness ==
    \E p \in DOMAIN frames :
        /\ frames[p].pc = "ret"
        /\ p # RootPath
        /\ p \in hist.listed
        /\ \E r \in hist.spawned : StrictPrefix(p, r)
        /\ \E r \in hist.synced : StrictPrefix(p, r)

----------------------------------------------------------------------------
(* C11 *)

\* every child of a listed directory has been classified
KidsWalked(p) == KidPaths(p) \subseteq DOMAIN hist.classified

\* C11: when children of one directory fail, the error the directory's walk
\* returns, once all its children have joined, is the first error a child
\* handed to it, and every child has been walked, the ones after a failed
\* sibling included.
C11_FirstErrorKept ==
    \A p \in DOMAIN frames :
        (frames[p].pc = "ret" /\ p \in hist.listed) =>
            /\ KidsWalked(p)
            /\ p \in DOMAIN hist.firsterr => frames[p].ret = hist.firsterr[p]

----------------------------------------------------------------------------
(* C12 *)

ListingErrors == {ReadErr(p) : p \in hist.failed}

----------------------------------------------------------------------------
(* C13 *)

\* the process has ended, or the closing goroutine has
Over == mainpc = "exited" \/ closer = "done"

\* C13: a non-nil terminal error is written to the diagnostic stream exactly
\* once, after the result channel is closed, and also when main leaves its
\* read loop and the process exits as soon as the channel is seen closed.
C13_ReportedOnceAfterClose ==
    /\ hist.reports <= 1
    /\ hist.reports >= 1 => closed
    /\ (Over /\ topferr # NilErr) => hist.reports = 1

----------------------------------------------------------------------------
(* C14 *)

AnyMatches(im, p, isdir) ==
    \E k \in 1..Len(im) : MatcherMatch(im[k], p, isdir)

\* C14: Match(path, isDir) on a slice of matchers is true exactly when one
\* of the matchers in it matches (path, isDir); the same matchers in another
\* order give the same result; the empty slice never matches.
C14_MatchIsAnyMatcher ==
    /\ call.pc \in {"once", "done"} =>
          /\ call.res = AnyMatches(call.im, call.p, call.isdir)
          /\ call.im = << >> => ~call.res
    /\ call.pc = "done" => call.altres = call.res

C14_Witness ==
    /\ call.pc = "done"
    /\ Len(call.im) = MaxLen
    /\ call.alt # call.im
    /\ call.res
    /\ ~MatcherMatch(call.im[1], call.p, call.isdir)
    /\ MatcherMatch(call.alt[1], call.p, call.isdir)

----------------------------------------------------------------------------
(* C15 *)

\* C15: once a walkFn call has found n above the maximum and returned the
\* overflow error, no path is sent on q any more, while the walks in flight
\* still run to their end (every entry of a listed directory is walked).
C15_NoPushAfterOverflow ==
    /\ ~hist.afterover
    /\ (hist.overflowed /\ Settled) => \A d \in hist.listed : KidsWalked(d)

----------------------------------------------------------------------------
(* C16 *)

\* a walk call that has started all its children and waits for them
Joining == {p \in DOMAIN frames : /\ frames[p].pc = "loop"
                                  /\ frames[p].i > Len(Files(frames[p]))
                                  /\ frames[p].wg > 0}
\* a goroutine blocked in the send on the full channel
Sending == {t \in DOMAIN tasks : At(t, "send") /\ Len(q) >= QCap}

\* C16: with main reading q until it is closed, the walk ends: q is closed,
\* main has read every path sent, and main's loop has ended.
C16_EventuallyClosed == <>(closed /\ q = << >> /\ mainpc = "exited")

\* every token is held, q is full with a sender blocked on it, a parent
\* waits for its children, and a child was walked synchronously
C16_Witness ==
    /\ Bounded
    /\ sem = SemCap
    /\ Len(q) = QCap
    /\ Sending # {}
    /\ Joining # {}
    /\ hist.synced # {}

----------------------------------------------------------------------------
(* C17 *)

Parent(p) == SubSeq(p, 1, Len(p) - 1)
NodeOf(p) == CHOOSE x \in Nodes : NodePath(x) = p

\* the files beside p that no pattern and no rule excludes
PlainSiblings(p) ==
    {s \in KidPaths(Parent(p)) :
        ~IsDir(NodeOf(s)) /\ ~ExcludedByRules(NodeOf(s))}

\* C17: the walk call of a directory the static pattern or the rules exclude
\* returns nil and nothing below it is walked; the walk never settles with
\* the prune signal as its error, and settles with nil when no listing
\* failed and no overflow was found; the entries beside the directory are
\* walked, and the files among them that nothing excludes are sent.
C17_PruneIsNotAnError ==
    /\ \A p \in hist.pruned :
          /\ p \in DOMAIN frames => frames[p].pc = "ret" /\ frames[p].ret = NilErr
          /\ \A r \in Seen : ~StrictPrefix(p, r)
    /\ topferr # SkipDir
    /\ \A g \in DOMAIN frames : frames[g].ferr # SkipDir
    /\ Settled =>
          /\ (hist.failed = {} /\ ~hist.overflowed) => topferr = NilErr
          /\ \A p \in hist.pruned :
                /\ KidPaths(Parent(p)) \subseteq DOMAIN hist.classified
                /\ Unbounded => PlainSiblings(p) \subseteq Pushed

C17_Witness ==
    /\ Settled
    /\ cfg.care
    /\ << "sub" >> \in hist.pruned
    /\ ~StaticMatched(NodeOf(<< "sub" >>))
    /\ << "a.txt" >> \in Pushed
    /\ topferr = NilErr

----------------------------------------------------------------------------
(* C18 *)

Symlinks == {x \in Entries : isSymlink(x)}

\* C18: ReadDir is never called on a symlink, so no path that runs through a
\* symlink is ever walked and no entry is walked twice, cycle or not; a
\* symlink that is reached and that nothing excludes is sent like a file.
C18_SymlinksNotFollowed ==
    /\ \A p \in hist.listed \cup hist.failed :
          \E x \in Nodes : NodePath(x) = p /\ ~isSymlink(x)
    /\ Seen \subseteq PathsOf(Nodes)
    /\ \A p \in DOMAIN hist.classified : hist.classified[p] = 1
    /\ (closed /\ Unbounded) =>
          \A x \in Symlinks :
              (Visited(x) /\ ~ExcludedByRules(x)) => NodePath(x) \in Pushed

C18_Witness ==
    /\ closed
    /\ \E x \in Symlinks :
          /\ Resolve(x) \in Above(x)
          /\ NodePath(x) \in Pushed
          /\ NodePath(x) \notin hist.listed
          /\ Parent(NodePath(x)) \in hist.listed

----------------------------------------------------------------------------
(* C19 *)

\* C19: a child is walked by a goroutine or by the caller, never by both;
\* walkFn is called once for every entry of every directory listed, so no
\* path is sent twice and n is incremented at most once for an entry, and
\* only for an entry that is not a directory.
C19_OncePerEntry ==
    /\ hist.spawned \cap hist.synced = {}
    /\ \A p \in DOMAIN hist.classified :
          hist.classified[p] = 1 /\ p \in PathsOf(Nodes)
    /\ \A p \in DOMAIN hist.pushed : hist.pushed[p] = 1
    /\ \A p \in DOMAIN hist.incs :
          /\ hist.incs[p] = 1
          /\ p \in DOMAIN hist.classified
          /\ \A x \in NodesAt(p) : ~IsDir(x)
    /\ Pushed \subseteq DOMAIN hist.incs
    /\ closed => \A d \in hist.listed : KidsWalked(d)

C19_Witness ==
    /\ closed
    /\ \E p \in hist.spawned : p \in Pushed
    /\ \E p \in hist.synced : p \in Pushed
    /\ \E p \in hist.synced : p \in hist.listed

====
